---- MODULE Spec2Model ----
(***************************************************************************)
(* The video-analysis page (VideoAnalysisPage.tsx) and the streaming       *)
(* detection component it renders (VideoStreamingDetection, part_005); the *)
(* dashboard (home.tsx) with its drone connection, its alert panel         *)
(* (AlertPanel.tsx) and its AI inference panel (AIInferencePanel,          *)
(* part_002).                                                              *)
(*                                                                         *)
(* React state is modelled by one variable per useState cell.  A handler   *)
(* that was created in some render reads the state of THAT render: the     *)
(* values a closure captured are stored with the closure (a run's `meta`   *)
(* and `vid`, the canplay listener's `listenerMeta`).                      *)
(*                                                                         *)
(* Text is a sequence of characters, the response body a sequence of       *)
(* bytes; a character is a one-token string.  Times are in tenths of a     *)
(* second.  A number n/d that the code computes in floating point is kept  *)
(* as the pair [num |-> n, den |-> d].                                     *)
(***************************************************************************)
EXTENDS Integers, Sequences, FiniteSets

\* ------------------------------------------------------------------ bounds
\* Calls of startStreamingDetection in one component instance.
MaxRuns == 2
\* reader.read() calls that deliver a chunk, over the runs of one component
\* instance (Spec).
MaxReads == 2
\* Lines of one response body (SpecStream).
MaxLines == 2
\* Upload requests the page may submit (SpecPage).
MaxUploads == 2
\* Video files selected in the AI inference panel (SpecPanel).
MaxJobs == 2
\* Connection attempts of the dashboard whose delay is running (SpecHome).
MaxAttempts == 2
\* the frames the panel's video element reports are 0..MaxFrame
MaxFrame == 3
\* the detections of one batch response shown in the panel
MaxDetections == 2

\* ------------------------------------------------------------- vocabulary
VideoIds == {"v1", "v2"}
NoVideo == ""
FrameCounts == {0, 2}
\* |video.currentTime - targetTime| > 0.5, in tenths
SyncTolerance == 5

LF == "LF"
Digits == <<"0", "1", "2", "3", "4", "5", "6", "7", "8", "9">>
DigitChars == {Digits[i] : i \in 1..10}
Digit(n) == Digits[n + 1]
Num(c) == CHOOSE n \in 0..9 : Digits[n + 1] = c
\* U+FFFD, what a decoder emits for a byte sequence that is not UTF-8
Replacement == "U+FFFD"
\* characters that may occur inside a JSON string of a record
TextChars == {"a", "e", "U+00E9", Replacement}
Whitespace == {" "}

Null == <<>>
NullRecord ==
  [type |-> "null", frame_count |-> 0, frame_number |-> 0, timestamp |-> 0,
   label |-> <<>>, error |-> <<>>]
MetadataRecord(n) == [NullRecord EXCEPT !.type = "metadata", !.frame_count = n]
FrameResult(k, t, l) ==
  [NullRecord EXCEPT !.type = "frame_result", !.frame_number = k,
                     !.timestamp = t, !.label = l]
CompleteRecord == [NullRecord EXCEPT !.type = "complete"]
ErrorRecord(e) == [NullRecord EXCEPT !.type = "none", !.error = e]
\* JSON.parse threw
Invalid == [NullRecord EXCEPT !.type = "invalid"]

Number(n) == [num |-> n, den |-> 1]

\* ---------------------------------------------------------- the wire format
\* The text of one record, as the streaming endpoint writes it.
Serialize(rec) ==
  CASE rec.type = "metadata" -> <<"M", Digit(rec.frame_count)>>
    [] rec.type = "frame_result" ->
         <<"F", Digit(rec.frame_number), Digit(rec.timestamp)>> \o rec.label
    [] rec.type = "complete" -> <<"C">>
    [] OTHER -> <<"E">> \o rec.error

\* UTF-8: one byte per ASCII character, two for U+00E9.
RECURSIVE Encode(_)
Encode(text) ==
  IF text = <<>> THEN <<>>
  ELSE (IF Head(text) = "U+00E9" THEN <<"C3", "A9">> ELSE <<Head(text)>>)
       \o Encode(Tail(text))

\* new TextDecoder().decode(value): a decoder of its own for every chunk, so a
\* lead byte that ends the chunk and a continuation byte that starts the next
\* one each decode to U+FFFD.
RECURSIVE TextDecoder_decode(_)
TextDecoder_decode(value) ==
  IF value = <<>> THEN <<>>
  ELSE IF Head(value) = "C3"
    THEN IF Len(value) >= 2 /\ value[2] = "A9"
           THEN <<"U+00E9">> \o TextDecoder_decode(SubSeq(value, 3, Len(value)))
           ELSE <<Replacement>> \o TextDecoder_decode(Tail(value))
  ELSE IF Head(value) = "A9"
    THEN <<Replacement>> \o TextDecoder_decode(Tail(value))
  ELSE <<Head(value)>> \o TextDecoder_decode(Tail(value))

\* buffer.split('\n'): the pieces between the newlines, the text after the last
\* newline (possibly empty) being the last piece.
RECURSIVE split(_)
split(text) ==
  IF \A i \in 1..Len(text) : text[i] # LF THEN <<text>>
  ELSE LET i == CHOOSE j \in 1..Len(text) :
                  text[j] = LF /\ \A k \in 1..(j - 1) : text[k] # LF
       IN <<SubSeq(text, 1, i - 1)>> \o split(SubSeq(text, i + 1, Len(text)))

Front(s) == SubSeq(s, 1, Len(s) - 1)
Last(s) == s[Len(s)]

\* line.trim() === ''
IsBlank(line) == \A i \in 1..Len(line) : line[i] \in Whitespace

\* JSON.parse(line), on the record texts of Serialize; anything else throws.
JSON_parse(line) ==
  IF Len(line) = 2 /\ line[1] = "M" /\ line[2] \in DigitChars
    THEN MetadataRecord(Num(line[2]))
  ELSE IF Len(line) >= 3 /\ line[1] = "F" /\ line[2] \in DigitChars
          /\ line[3] \in DigitChars
          /\ \A i \in 4..Len(line) : line[i] \in TextChars
    THEN FrameResult(Num(line[2]), Num(line[3]), SubSeq(line, 4, Len(line)))
  ELSE IF line = <<"C">> THEN CompleteRecord
  ELSE IF Len(line) >= 1 /\ line[1] = "E"
          /\ \A i \in 2..Len(line) : line[i] \in TextChars
    THEN ErrorRecord(Tail(line))
  ELSE Invalid

\* ------------------------------------------------------------------ state
VARIABLES
  \* VideoAnalysisPage: useState cells, and the upload request in flight
  videoId, uploadedVideoId, isUploading, uploadError, upload, uploads,
  \* VideoStreamingDetection: whether an instance is mounted, its useState cells
  mounted, isProcessing, metadata, currentFrame, allFrames, error, progress,
  \* the <video> element: src, currentTime, and whether a canplay event is due
  videoSrc, currentTime, canplayDue,
  \* the metadata captured by the registered canplay listener's closure
  listenerMeta,
  \* the streaming runs of the mounted instance, oldest first
  runs,
  \* bytes of the response body not yet handed to reader.read() (SpecStream)
  body, wire,
  \* chunks delivered to the mounted instance so far (Spec)
  nreads,
  \* history: the frame_result records dispatched since the last start, each
  \* with the run that dispatched it; every record dispatched (SpecStream);
  \* whether the user restarted detection or changed videoId since the mount
  arrived, dispatched, userActed,
  \* AIInferencePanel: useState cells, the uploads in flight with the detection
  \* request each one made, and the messages shown by window.alert
  uploadedVideo, videoType, hasProcessedVideo, isPlaying, detections, jobs,
  alerted,
  \* Home: useState cells, and the connection attempts whose delay is running
  activeTab, droneConnected, isConnecting, showScanner, attempts,
  \* AlertPanel: the alerts prop, the tab shown, and the callback the last
  \* click called
  alerts, alertTab, requested,
  \* AIInferencePanel: the useState cells of the filters and the display, and
  \* its currentFrame
  excludedLabels, threshold, selectedModel, panelCurrentFrame,
  showBoundingBoxes, visualizationMode,
  \* MapVisualization: useState cells
  mapPosition, zoomLevel, isDragging, dragStart, lastPosition,
  \* history: the kind of the last event the map handled
  mapEvent

pageVars == <<videoId, uploadedVideoId, isUploading, uploadError, upload, uploads>>
stateVars == <<isProcessing, metadata, currentFrame, allFrames, error, progress>>
videoVars == <<videoSrc, currentTime, canplayDue, listenerMeta>>
streamVars == <<body, wire, dispatched>>
displayVars == <<excludedLabels, threshold, selectedModel, panelCurrentFrame,
                 showBoundingBoxes, visualizationMode>>
panelVars == <<uploadedVideo, videoType, hasProcessedVideo, isPlaying,
               detections, jobs, alerted, displayVars>>
mapVars == <<mapPosition, zoomLevel, isDragging, dragStart, lastPosition,
             mapEvent>>
homeVars == <<activeTab, droneConnected, isConnecting, showScanner, attempts>>
alertVars == <<alerts, alertTab, requested>>
\* the dashboard, and the video-analysis page with its component
dashVars == <<panelVars, homeVars, alertVars, mapVars>>
analysisVars == <<pageVars, mounted, stateVars, videoVars, runs, streamVars,
                  nreads, arrived, userActed>>
otherThanMap == <<panelVars, homeVars, alertVars, analysisVars>>
vars == <<analysisVars, dashVars>>

\* The useState cells as one value, for the handlers that update several.
State ==
  [isProcessing |-> isProcessing, metadata |-> metadata,
   currentFrame |-> currentFrame, allFrames |-> allFrames,
   error |-> error, progress |-> progress]

\* useState(...) initial values, part_005 lines 55-60
InitialState ==
  [isProcessing |-> FALSE, metadata |-> NullRecord, currentFrame |-> NullRecord,
   allFrames |-> <<>>, error |-> Null, progress |-> Number(0)]

SetState(st) ==
  /\ isProcessing' = st.isProcessing
  /\ metadata' = st.metadata
  /\ currentFrame' = st.currentFrame
  /\ allFrames' = st.allFrames
  /\ error' = st.error
  /\ progress' = st.progress

\* One call of startStreamingDetection: the videoId and the metadata its
\* closure captured, how far it got, and processStream's `buffer`.
Run(vid, meta) ==
  [vid |-> vid, meta |-> meta, phase |-> "fetch", buffer |-> <<>>]
\* A run that is over: its stream ended, or it failed and its catch ran.
Ended == [vid |-> NoVideo, meta |-> NullRecord, phase |-> "ended", buffer |-> <<>>]
Failed == [Ended EXCEPT !.phase = "failed"]

Live == {r \in 1..Len(runs) : runs[r].phase \in {"fetch", "read"}}
Reading == {r \in 1..Len(runs) : runs[r].phase = "read"}

\* ------------------------------------------------- processStream, per line
\* (data.frame_number / metadata.frame_count) * 100
Percent(frame_number, frame_count) ==
  [num |-> frame_number * 100, den |-> frame_count]

\* (a frame_result put in its place by frame_number)
RECURSIVE Insert(_, _)
Insert(frames, data) ==
  IF frames = <<>> \/ data.frame_number >= Last(frames).frame_number
    THEN Append(frames, data)
    ELSE Append(Insert(Front(frames), data), Last(frames))
Dispatch_sorted(st, data, meta) ==
  IF data.type = "frame_result"
    THEN [st EXCEPT !.currentFrame = data,
                    !.allFrames = Insert(st.allFrames, data)]
    ELSE st

\* The branch of the if-chain a parsed record takes (lines 119-138); `meta` is
\* the `metadata` of the render that created this startStreamingDetection.
Dispatch(st, data, meta) ==
  IF data.type = "metadata" THEN [st EXCEPT !.metadata = data]
  ELSE IF data.type = "frame_result" THEN
    [st EXCEPT !.currentFrame = data,
               !.allFrames = Append(st.allFrames, data),
               !.progress = IF meta # NullRecord
                              THEN Percent(data.frame_number, meta.frame_count)
                              ELSE st.progress]
  ELSE IF data.type = "complete" THEN
    [st EXCEPT !.isProcessing = FALSE, !.progress = Number(100)]
  ELSE IF data.error # Null THEN
    [st EXCEPT !.error = data.error, !.isProcessing = FALSE]
  ELSE st

\* catch (e) { console.error('Error parsing JSON:', e, line); }
OnParseError_abort(st) ==
  [st EXCEPT !.error = <<"Stream processing error: ", "parse">>,
             !.isProcessing = FALSE]
OnParseError(st) == st

\* One iteration of `for (const line of lines)`.
ProcessLine(st, line, meta) ==
  IF IsBlank(line) THEN st
  ELSE LET data == JSON_parse(line)
       IN IF data = Invalid THEN OnParseError(st) ELSE Dispatch(st, data, meta)

RECURSIVE ProcessLines(_, _, _)
ProcessLines(st, lines, meta) ==
  IF lines = <<>> THEN st
  ELSE ProcessLines(ProcessLine(st, Head(lines), meta), Tail(lines), meta)

\* The records among `lines` that reach the if-chain, in order.
RECURSIVE Records(_)
Records(lines) ==
  IF lines = <<>> THEN <<>>
  ELSE (IF IsBlank(Head(lines)) \/ JSON_parse(Head(lines)) = Invalid
          THEN <<>> ELSE <<JSON_parse(Head(lines))>>)
       \o Records(Tail(lines))

\* buffer += chunk; lines = buffer.split('\n'); buffer = lines.pop() || ''
LinesOf(buffer, value) == Front(split(buffer \o TextDecoder_decode(value)))
RestOf(buffer, value) == Last(split(buffer \o TextDecoder_decode(value)))

SelectFrames(recs) == SelectSeq(recs, LAMBDA d : d.type = "frame_result")
Tagged(recs, r) == [i \in 1..Len(recs) |-> [frame |-> recs[i], run |-> r]]

\* ------------------------------------------------------ the <video> element
\* useEffect(..., [currentFrame, metadata]), lines 240-253: the new
\* video.currentTime after the effect ran on this state.
SyncedTime_inclusive(st, time) ==
  IF st.currentFrame = NullRecord \/ st.metadata = NullRecord THEN time
  ELSE IF (IF time >= st.currentFrame.timestamp
             THEN time - st.currentFrame.timestamp
             ELSE st.currentFrame.timestamp - time) >= SyncTolerance
         THEN st.currentFrame.timestamp
         ELSE time
SyncedTime(st, time) ==
  IF st.currentFrame = NullRecord \/ st.metadata = NullRecord THEN time
  ELSE IF (IF time >= st.currentFrame.timestamp
             THEN time - st.currentFrame.timestamp
             ELSE st.currentFrame.timestamp - time) > SyncTolerance
         THEN st.currentFrame.timestamp
         ELSE time

\* ------------------------------------------------- VideoStreamingDetection
\* What a render of VideoAnalysisPage with videoId `v` does to the component
\* (VideoAnalysisPage lines 113-121) and what its [videoId] effect (lines
\* 221-237) does to the <video> element and the canplay listener.
RenderDetection_cancels(v) ==
  IF v = videoId THEN
    UNCHANGED <<mounted, stateVars, videoVars, runs, nreads, arrived, userActed>>
  ELSE IF v = NoVideo THEN
    /\ mounted' = FALSE
    /\ SetState(InitialState)
    /\ videoSrc' = NoVideo /\ currentTime' = 0 /\ canplayDue' = FALSE
    /\ listenerMeta' = NullRecord
    /\ runs' = <<>> /\ nreads' = 0 /\ arrived' = <<>> /\ userActed' = FALSE
  ELSE IF ~mounted THEN
    /\ mounted' = TRUE
    /\ SetState(InitialState)
    /\ videoSrc' = v /\ currentTime' = 0 /\ canplayDue' = TRUE
    /\ listenerMeta' = NullRecord
    /\ runs' = <<>> /\ nreads' = 0 /\ arrived' = <<>> /\ userActed' = FALSE
  ELSE
    /\ videoSrc' = v /\ currentTime' = 0 /\ canplayDue' = TRUE
    /\ listenerMeta' = metadata
    /\ userActed' = TRUE
    /\ SetState([State EXCEPT !.isProcessing = FALSE])
    /\ UNCHANGED <<mounted, runs, nreads, arrived>>
RenderDetection(v) ==
  IF v = videoId THEN
    UNCHANGED <<mounted, stateVars, videoVars, runs, nreads, arrived, userActed>>
  ELSE IF v = NoVideo THEN
    \* unmounted: the instance's state is gone, and what its runs still set
    \* changes nothing
    /\ mounted' = FALSE
    /\ SetState(InitialState)
    /\ videoSrc' = NoVideo /\ currentTime' = 0 /\ canplayDue' = FALSE
    /\ listenerMeta' = NullRecord
    /\ runs' = <<>> /\ nreads' = 0 /\ arrived' = <<>> /\ userActed' = FALSE
  ELSE IF ~mounted THEN
    /\ mounted' = TRUE
    /\ SetState(InitialState)
    /\ videoSrc' = v /\ currentTime' = 0 /\ canplayDue' = TRUE
    /\ listenerMeta' = NullRecord
    /\ runs' = <<>> /\ nreads' = 0 /\ arrived' = <<>> /\ userActed' = FALSE
  ELSE
    \* same instance, new prop: the effect re-registers handleCanPlay, which
    \* now calls the startStreamingDetection of this render
    /\ videoSrc' = v /\ currentTime' = 0 /\ canplayDue' = TRUE
    /\ listenerMeta' = metadata
    /\ userActed' = TRUE
    /\ UNCHANGED <<mounted, stateVars, runs, nreads, arrived>>

\* startStreamingDetection, lines 66-72, up to the await of fetch.
startStreamingDetection_keepsError(vid, meta) ==
  /\ Len(runs) < MaxRuns
  /\ SetState([State EXCEPT !.isProcessing = TRUE,
                            !.allFrames = <<>>, !.currentFrame = NullRecord,
                            !.progress = Number(0)])
  /\ runs' = Append(runs, Run(vid, meta))
  /\ arrived' = <<>>
startStreamingDetection(vid, meta) ==
  /\ Len(runs) < MaxRuns
  /\ SetState([State EXCEPT !.isProcessing = TRUE, !.error = Null,
                            !.allFrames = <<>>, !.currentFrame = NullRecord,
                            !.progress = Number(0)])
  /\ runs' = Append(runs, Run(vid, meta))
  /\ arrived' = <<>>

\* The canplay event of the <video> element, lines 227-232.
handleCanPlay ==
  /\ mounted /\ canplayDue
  /\ startStreamingDetection(videoSrc, listenerMeta)
  /\ canplayDue' = FALSE
  /\ UNCHANGED <<pageVars, mounted, videoSrc, currentTime, listenerMeta,
                 streamVars, nreads, userActed, dashVars>>

\* The Restart Detection button, lines 349-355: the handler of the latest
\* render, enabled while isProcessing is false.
RestartDetection ==
  /\ mounted /\ ~isProcessing
  /\ startStreamingDetection(videoId, metadata)
  /\ userActed' = TRUE
  /\ UNCHANGED <<pageVars, mounted, videoVars, streamVars, nreads, dashVars>>

FetchFailures ==
  {"network", "HTTP error! status: 500",
   "Response body reader could not be created"}

\* catch (e), lines 151-154
StartFailed_stillProcessing(st, cause) ==
  [st EXCEPT !.error = <<"Failed to start streaming: ", cause>>]
StartFailed(st, cause) ==
  [st EXCEPT !.error = <<"Failed to start streaming: ", cause>>,
             !.isProcessing = FALSE]

\* fetch rejects, or lines 85-92 throw.
fetchFails(r, cause) ==
  /\ r \in 1..Len(runs) /\ runs[r].phase = "fetch"
  /\ SetState(StartFailed(State, cause))
  /\ runs' = [runs EXCEPT ![r] = Failed]
  /\ UNCHANGED <<pageVars, mounted, videoVars, streamVars, nreads, arrived,
                 userActed, dashVars>>

\* fetch resolves with a 2xx response that has a body: processStream starts.
fetchOk(r) ==
  /\ r \in 1..Len(runs) /\ runs[r].phase = "fetch"
  /\ runs' = [runs EXCEPT ![r].phase = "read"]
  /\ UNCHANGED <<pageVars, mounted, stateVars, videoVars, streamVars, nreads,
                 arrived, userActed, dashVars>>

\* One pass of the while loop on a chunk `value` (lines 99-142), the render
\* that follows it and the playback-sync effect of that render.
ReadChunk(r, value) ==
  LET lines == LinesOf(runs[r].buffer, value)
      recs == Records(lines)
      st == ProcessLines(State, lines, runs[r].meta)
      refreshed == \E i \in 1..Len(recs) :
                     recs[i].type \in {"metadata", "frame_result"}
      time == IF refreshed THEN SyncedTime(st, currentTime) ELSE currentTime
  IN /\ SetState(st)
     /\ runs' = [runs EXCEPT ![r].buffer = RestOf(runs[r].buffer, value)]
     /\ currentTime' = time
     \* a seek makes the element fire canplay again once it has data
     /\ canplayDue' = (canplayDue \/ time # currentTime)
     /\ arrived' = arrived \o Tagged(SelectFrames(recs), r)
     /\ UNCHANGED <<pageVars, mounted, videoSrc, listenerMeta, userActed,
                    dashVars>>

\* reader.read() resolves with done: the loop breaks (lines 101-103).
ReadDone(r) ==
  /\ runs' = [runs EXCEPT ![r] = Ended]
  /\ UNCHANGED <<pageVars, mounted, stateVars, videoVars, nreads, arrived,
                 userActed, dashVars>>

\* reader.read() rejects: processStream().catch, lines 146-149.
readFails(r) ==
  /\ r \in Reading
  /\ SetState([State EXCEPT !.error = <<"Stream processing error: ", "network">>,
                            !.isProcessing = FALSE])
  /\ runs' = [runs EXCEPT ![r] = Failed]
  /\ UNCHANGED <<pageVars, mounted, videoVars, streamVars, nreads, arrived,
                 userActed, dashVars>>

\* ------------------------------------------------------- VideoAnalysisPage
\* onChange of the video-ID text field, line 93.
setVideoId(v) ==
  /\ v # videoId
  /\ videoId' = v
  /\ RenderDetection(v)
  /\ UNCHANGED <<uploadedVideoId, isUploading, uploadError, upload, uploads,
                 streamVars, dashVars>>

\* event.target.files?.[0]: the file the user selected, of which the handlers
\* read the MIME type; NoFile when the selection was cancelled.
File(type) == [type |-> type]
NoFile == [type |-> <<"none">>]
Files == {File(<<"video/", "mp4">>), File(<<"text/", "plain">>), File(<<>>)}
\* String.prototype.startsWith
startsWith(text, searchString) ==
  /\ Len(text) >= Len(searchString)
  /\ SubSeq(text, 1, Len(searchString)) = searchString

NoUpload ==
  [phase |-> "idle", ok |-> FALSE, video_id |-> NoVideo, file |-> NoFile]

\* handleFileUpload up to the await of axios.post, lines 13-28; the file input
\* is disabled while isUploading.
handleFileUpload(file) ==
  /\ ~isUploading /\ uploads < MaxUploads
  /\ file # NoFile
  /\ isUploading' = TRUE
  /\ uploadError' = Null
  /\ upload' = [NoUpload EXCEPT !.phase = "sent", !.file = file]
  /\ uploads' = uploads + 1
  /\ UNCHANGED <<videoId, uploadedVideoId, mounted, stateVars, videoVars, runs,
                 streamVars, nreads, arrived, userActed, dashVars>>

\* The upload endpoint answers: 2xx with a video_id, 2xx without one, or a
\* failure (no answer, or a status axios rejects).
uploadResponds(ok, id) ==
  /\ upload.phase = "sent"
  /\ upload' = [upload EXCEPT !.phase = "answered", !.ok = ok, !.video_id = id]
  /\ UNCHANGED <<videoId, uploadedVideoId, isUploading, uploadError, uploads,
                 mounted, stateVars, videoVars, runs, streamVars, nreads,
                 arrived, userActed, dashVars>>

\* lines 30-32
storeVideoId_onlyUploaded(id) ==
  /\ uploadedVideoId' = id
  /\ videoId' = videoId
  /\ RenderDetection(videoId)
storeVideoId(id) ==
  /\ uploadedVideoId' = id
  /\ videoId' = id
  /\ RenderDetection(id)

\* handleFileUpload after the await, lines 30-41.
uploadSettles ==
  /\ upload.phase = "answered"
  /\ IF upload.ok /\ upload.video_id # NoVideo THEN
       /\ storeVideoId(upload.video_id)
       /\ UNCHANGED uploadError
     ELSE
       /\ uploadError' =
            IF upload.ok
              THEN <<"Upload successful but no video ID was returned">>
              ELSE <<"Failed to upload video. Please try again.">>
       /\ UNCHANGED <<videoId, uploadedVideoId, mounted, stateVars, videoVars,
                      runs, nreads, arrived, userActed>>
  /\ isUploading' = FALSE
  /\ upload' = NoUpload
  /\ UNCHANGED <<uploads, streamVars, dashVars>>

\* ------------------------------------------------------- AIInferencePanel
\* A detection of the batch endpoint's response is a record of the fields the
\* response carries: a field that is missing is not in its DOMAIN.
Has(object, field) == field \in DOMAIN object

\* object[field] || default, for a string and for a number
OrString(object, field, default) ==
  IF Has(object, field) /\ object[field] # "" THEN object[field] ELSE default
OrNumber(object, field) ==
  IF Has(object, field) /\ object[field] # 0 THEN object[field] ELSE 0
\* detection.bounding_box?.[field] || 0
BoxField(detection, field) ==
  IF Has(detection, "bounding_box")
    THEN OrNumber(detection.bounding_box, field)
    ELSE 0
\* a field copied as it is: <<value>>, or <<>> for undefined
Optional(object, field) ==
  IF Has(object, field) THEN <<object[field]>> ELSE <<>>

\* Math.random().toString() and new Date().toISOString()
Math_random == "0.5"
Now == "now"

\* The object the map callback of lines 217-231 builds.
formatDetection_severityLow(detection) ==
  [id |-> OrString(detection, "id", Math_random),
   label |-> OrString(detection, "label", "Unknown"),
   confidence |-> OrNumber(detection, "confidence"),
   boundingBox |-> [x |-> BoxField(detection, "x"),
                    y |-> BoxField(detection, "y"),
                    width |-> BoxField(detection, "width"),
                    height |-> BoxField(detection, "height")],
   severity |-> OrString(detection, "severity", "low"),
   timestamp |-> OrString(detection, "timestamp", Now),
   frame_number |-> Optional(detection, "frame_number"),
   fps |-> Optional(detection, "fps")]
formatDetection(detection) ==
  [id |-> OrString(detection, "id", Math_random),
   label |-> OrString(detection, "label", "Unknown"),
   confidence |-> OrNumber(detection, "confidence"),
   boundingBox |-> [x |-> BoxField(detection, "x"),
                    y |-> BoxField(detection, "y"),
                    width |-> BoxField(detection, "width"),
                    height |-> BoxField(detection, "height")],
   severity |-> OrString(detection, "severity", "medium"),
   timestamp |-> OrString(detection, "timestamp", Now),
   frame_number |-> Optional(detection, "frame_number"),
   fps |-> Optional(detection, "fps")]

\* The answers of the batch-detection endpoint: the request rejects, a non-2xx
\* status, a 2xx body that is not JSON, or a 2xx body with the parsed result.
NullResult == [null |-> TRUE]
Response(kind, result) == [kind |-> kind, result |-> result]
NoResponse == Response("none", NullResult)

\* One selection of a video file: the upload request, then the detection
\* request processUploadedVideo makes for it.
Job == [phase |-> "upload", failed |-> FALSE, response |-> NoResponse]

AlertNoDetections ==
  "No detections found in the video. Please try a different video or adjust the confidence threshold."
AlertFailed == "Failed to process video: "
AlertError ==
  "Error processing video. Please try again or use a different video file."

\* handleVideoUpload up to the await of fetch, lines 153-173.
handleVideoUpload(file) ==
  /\ Len(jobs) < MaxJobs
  /\ file # NoFile /\ startsWith(file.type, <<"video/">>)
  /\ uploadedVideo' = <<Len(jobs) + 1>>
  /\ videoType' = "uploaded"
  /\ hasProcessedVideo' = FALSE
  /\ isPlaying' = FALSE
  /\ detections' = <<>>
  /\ jobs' = Append(jobs, Job)
  /\ UNCHANGED <<alerted, displayVars, homeVars, alertVars, analysisVars,
                 mapVars>>

\* handleVideoUpload after the await, lines 175-191: with a video_id it calls
\* processUploadedVideo, which sends the detection request (lines 195-208);
\* anything else is written to the console.
uploadAnswered(j, ok, id) ==
  /\ j \in 1..Len(jobs) /\ jobs[j].phase = "upload"
  /\ jobs' = [jobs EXCEPT ![j].phase = IF ok /\ id # NoVideo THEN "detect"
                                                           ELSE "done",
                          ![j].failed = ~ok]
  /\ UNCHANGED <<uploadedVideo, videoType, hasProcessedVideo, isPlaying,
                 detections, alerted, displayVars, homeVars, alertVars,
                 analysisVars, mapVars>>

\* The detection request is answered.
detectAnswered(j, response) ==
  /\ j \in 1..Len(jobs) /\ jobs[j].phase = "detect"
  /\ jobs' = [jobs EXCEPT ![j].phase = "answered", ![j].response = response]
  /\ UNCHANGED <<uploadedVideo, videoType, hasProcessedVideo, isPlaying,
                 detections, alerted, displayVars, homeVars, alertVars,
                 analysisVars, mapVars>>

\* result && result.detections, line 215
HasDetections(result) == result # NullResult /\ Has(result, "detections")

\* else branch and catch, lines 241-251
DetectFailed_clears(kind) ==
  /\ alerted' = Append(alerted, IF kind = "status" THEN AlertFailed
                                                    ELSE AlertError)
  /\ detections' = <<>>
  /\ UNCHANGED hasProcessedVideo
DetectFailed(kind) ==
  /\ alerted' = Append(alerted, IF kind = "status" THEN AlertFailed
                                                    ELSE AlertError)
  /\ UNCHANGED <<detections, hasProcessedVideo>>

\* processUploadedVideo after the await of fetch, lines 210-251.
processUploadedVideo(j) ==
  /\ j \in 1..Len(jobs) /\ jobs[j].phase = "answered"
  /\ LET response == jobs[j].response
     IN IF response.kind = "json" THEN
          IF HasDetections(response.result) THEN
            /\ detections' =
                 [i \in 1..Len(response.result.detections) |->
                    formatDetection(response.result.detections[i])]
            /\ hasProcessedVideo' = TRUE
            /\ UNCHANGED alerted
          ELSE
            /\ alerted' = Append(alerted, AlertNoDetections)
            /\ UNCHANGED <<detections, hasProcessedVideo>>
        ELSE DetectFailed(response.kind)
  /\ jobs' = [jobs EXCEPT ![j].phase = "done"]
  /\ UNCHANGED <<uploadedVideo, videoType, isPlaying, displayVars, homeVars,
                 alertVars, analysisVars, mapVars>>

\* switchToLive, lines 258-263: the detections are kept.
switchToLive_clears ==
  /\ videoType = "uploaded"
  /\ videoType' = "live"
  /\ uploadedVideo' = Null
  /\ isPlaying' = TRUE
  /\ detections' = <<>>
  /\ UNCHANGED <<hasProcessedVideo, jobs, alerted, displayVars, homeVars,
                 alertVars, analysisVars, mapVars>>
switchToLive ==
  /\ videoType = "uploaded"
  /\ videoType' = "live"
  /\ uploadedVideo' = Null
  /\ isPlaying' = TRUE
  /\ UNCHANGED <<detections, hasProcessedVideo, jobs, alerted, displayVars,
                 homeVars, alertVars, analysisVars, mapVars>>

\* The timeupdate listener of lines 276-284, on the video element of lines
\* 377-391: frame is Math.floor(video.currentTime * videoFps).
updateFrame(frame) ==
  /\ videoType = "uploaded" /\ uploadedVideo # Null
  /\ frame \in 0..MaxFrame
  /\ panelCurrentFrame' = frame
  /\ UNCHANGED <<uploadedVideo, videoType, hasProcessedVideo, isPlaying,
                 detections, jobs, alerted, excludedLabels, threshold,
                 selectedModel, showBoundingBoxes, visualizationMode,
                 homeVars, alertVars, analysisVars, mapVars>>

Abs(n) == IF n < 0 THEN 0 - n ELSE n

\* The forEach of lines 302-310 from place i on; acc is {minDiff,
\* closestFrame}, with <<>> for Infinity and for null.
RECURSIVE forEachClosest_lastWins(_, _, _, _)
forEachClosest_lastWins(list, frame, i, acc) ==
  IF i > Len(list) THEN acc
  ELSE IF /\ list[i].frame_number # <<>>
          /\ \/ acc.minDiff = <<>>
             \/ Abs(list[i].frame_number[1] - frame) <= acc.minDiff[1]
    THEN forEachClosest_lastWins(list, frame, i + 1,
           [minDiff |-> <<Abs(list[i].frame_number[1] - frame)>>,
            closestFrame |-> list[i].frame_number])
    ELSE forEachClosest_lastWins(list, frame, i + 1, acc)
RECURSIVE forEachClosest(_, _, _, _)
forEachClosest(list, frame, i, acc) ==
  IF i > Len(list) THEN acc
  ELSE IF /\ list[i].frame_number # <<>>
          /\ \/ acc.minDiff = <<>>
             \/ Abs(list[i].frame_number[1] - frame) < acc.minDiff[1]
    THEN forEachClosest(list, frame, i + 1,
           [minDiff |-> <<Abs(list[i].frame_number[1] - frame)>>,
            closestFrame |-> list[i].frame_number])
    ELSE forEachClosest(list, frame, i + 1, acc)

\* getClosestDetections, lines 287-313, of the detections and currentFrame it
\* closes over.
getClosestDetections(list, frame) ==
  IF Len(list) = 0 THEN <<>>
  ELSE IF ~(\E i \in 1..Len(list) : list[i].frame_number # <<>>) THEN list
  ELSE LET closestFrame ==
             forEachClosest(list, frame, 1,
               [minDiff |-> <<>>, closestFrame |-> <<>>]).closestFrame
       IN SelectSeq(list, LAMBDA d : d.frame_number = closestFrame)

\* line 314
frameDetections == getClosestDetections(detections, panelCurrentFrame)

\* What the overlay of lines 419-449 and the Results list of lines 703-738
\* draw.
Overlay ==
  IF showBoundingBoxes /\ visualizationMode = "bounding-boxes"
    THEN frameDetections
    ELSE <<>>
ResultsList == frameDetections

\* excludedLabels.includes(label)
includes(list, label) == \E i \in 1..Len(list) : list[i] = label

\* String.prototype.toLowerCase on the labels of the model, of which only
\* "Unknown" has an upper-case letter.
toLowerCase(label) == IF label = "Unknown" THEN "unknown" ELSE label

\* The checkboxes of lines 633-662: a click on the one of a label.
FilterLabels == {"person", "animal", "vegetation", "object"}
toggleExcluded(label) ==
  /\ label \in FilterLabels
  /\ excludedLabels' =
       IF ~includes(excludedLabels, label)
         THEN Append(excludedLabels, label)
         ELSE SelectSeq(excludedLabels, LAMBDA l : l # label)
  /\ UNCHANGED <<uploadedVideo, videoType, hasProcessedVideo, isPlaying,
                 detections, jobs, alerted, threshold, selectedModel,
                 panelCurrentFrame, showBoundingBoxes, visualizationMode,
                 homeVars, alertVars, analysisVars, mapVars>>

\* The exclude button of the i-th entry of the Results list, lines 714-727.
excludeDetection(i) ==
  /\ i \in 1..Len(ResultsList)
  /\ LET label == toLowerCase(ResultsList[i].label)
     IN excludedLabels' =
          IF ~includes(excludedLabels, label)
            THEN Append(excludedLabels, label)
            ELSE excludedLabels
  /\ UNCHANGED <<uploadedVideo, videoType, hasProcessedVideo, isPlaying,
                 detections, jobs, alerted, threshold, selectedModel,
                 panelCurrentFrame, showBoundingBoxes, visualizationMode,
                 homeVars, alertVars, analysisVars, mapVars>>

\* The quick fixes of lines 672-693 and the reset of line 605.
highAccuracyMode ==
  /\ threshold' = 90
  /\ selectedModel' = "microsoft/yolov5"
  /\ UNCHANGED <<uploadedVideo, videoType, hasProcessedVideo, isPlaying,
                 detections, jobs, alerted, excludedLabels,
                 panelCurrentFrame, showBoundingBoxes, visualizationMode,
                 homeVars, alertVars, analysisVars, mapVars>>
excludePerson ==
  /\ excludedLabels' = <<"person">>
  /\ threshold' = 85
  /\ UNCHANGED <<uploadedVideo, videoType, hasProcessedVideo, isPlaying,
                 detections, jobs, alerted, selectedModel,
                 panelCurrentFrame, showBoundingBoxes, visualizationMode,
                 homeVars, alertVars, analysisVars, mapVars>>
resetThreshold ==
  /\ threshold' = 85
  /\ UNCHANGED <<uploadedVideo, videoType, hasProcessedVideo, isPlaying,
                 detections, jobs, alerted, excludedLabels, selectedModel,
                 panelCurrentFrame, showBoundingBoxes, visualizationMode,
                 homeVars, alertVars, analysisVars, mapVars>>

\* The Display tab, lines 520-553.
setShowBoundingBoxes(checked) ==
  /\ showBoundingBoxes' = checked
  /\ UNCHANGED <<uploadedVideo, videoType, hasProcessedVideo, isPlaying,
                 detections, jobs, alerted, excludedLabels, threshold,
                 selectedModel, panelCurrentFrame, visualizationMode,
                 homeVars, alertVars, analysisVars, mapVars>>
VisualizationModes == {"bounding-boxes", "heatmap", "depth-map"}
setVisualizationMode(mode) ==
  /\ mode \in VisualizationModes
  /\ visualizationMode' = mode
  /\ UNCHANGED <<uploadedVideo, videoType, hasProcessedVideo, isPlaying,
                 detections, jobs, alerted, excludedLabels, threshold,
                 selectedModel, panelCurrentFrame, showBoundingBoxes,
                 homeVars, alertVars, analysisVars, mapVars>>

\* ------------------------------------------------------------------- Home
HomeTabs == {"live", "map", "analytics"}
\* DroneScannerModal, part_004 lines 6-9
fakeDrones == {"drone-1", "drone-2"}

\* lines 86-88
handleConnectRequest ==
  /\ showScanner' = TRUE
  /\ UNCHANGED <<activeTab, droneConnected, isConnecting, attempts>>

\* lines 50-58, up to the await of the connection delay
handleDroneConnection ==
  IF droneConnected THEN
    /\ droneConnected' = FALSE
    /\ UNCHANGED <<activeTab, isConnecting, showScanner, attempts>>
  ELSE
    /\ attempts < MaxAttempts
    /\ isConnecting' = TRUE
    /\ attempts' = attempts + 1
    /\ UNCHANGED <<activeTab, droneConnected, showScanner>>

\* The Connect/Disconnect button of the header, lines 309-331.
connectButton ==
  /\ ~isConnecting
  /\ IF droneConnected THEN handleDroneConnection ELSE handleConnectRequest
  /\ UNCHANGED <<panelVars, alertVars, analysisVars, mapVars>>

\* The Connect button of a drone in the scanner dialog: lines 109-114, up to
\* the await of the connection delay.
handleSelectDrone_keepsScanner(drone) ==
  /\ showScanner /\ attempts < MaxAttempts
  /\ showScanner' = TRUE
  /\ isConnecting' = TRUE
  /\ attempts' = attempts + 1
  /\ UNCHANGED <<activeTab, droneConnected, panelVars, alertVars, analysisVars, mapVars>>
handleSelectDrone(drone) ==
  /\ showScanner /\ attempts < MaxAttempts
  /\ showScanner' = FALSE
  /\ isConnecting' = TRUE
  /\ attempts' = attempts + 1
  /\ UNCHANGED <<activeTab, droneConnected, panelVars, alertVars, analysisVars, mapVars>>

\* The connection delay of an attempt is over: lines 115-117 (and 71-83).
connected ==
  /\ attempts > 0
  /\ droneConnected' = TRUE
  /\ activeTab' = "live"
  /\ isConnecting' = FALSE
  /\ attempts' = attempts - 1
  /\ UNCHANGED <<showScanner, panelVars, alertVars, analysisVars, mapVars>>

\* onClose of the scanner dialog, line 334
onClose ==
  /\ showScanner
  /\ showScanner' = FALSE
  /\ UNCHANGED <<activeTab, droneConnected, isConnecting, attempts, panelVars,
                 alertVars, analysisVars, mapVars>>

\* onValueChange of the tabs, line 346
setActiveTab(tab) ==
  /\ tab # activeTab
  /\ activeTab' = tab
  /\ UNCHANGED <<droneConnected, isConnecting, showScanner, attempts, panelVars,
                 alertVars, analysisVars, mapVars>>

\* ------------------------------------------------------------- AlertPanel
Alert(id, status) == [id |-> id, status |-> status]
\* AlertPanel.tsx lines 224-297
defaultAlerts ==
  <<Alert("1", "new"), Alert("2", "acknowledged"), Alert("3", "new"),
    Alert("4", "new"), Alert("5", "resolved"), Alert("6", "acknowledged")>>

\* lines 44-47
filteredAlerts ==
  IF alertTab = "all" THEN alerts
  ELSE SelectSeq(alerts, LAMBDA alert : alert.status = alertTab)

\* The buttons AlertItem renders for an alert, lines 188-217.
Offered_resolveNew(alert) ==
  (IF alert.status = "new" THEN {"onAcknowledge", "onResolve"} ELSE {})
  \cup (IF alert.status = "acknowledged" THEN {"onResolve"} ELSE {})
  \cup {"onViewDetails"}
Offered(alert) ==
  (IF alert.status = "new" THEN {"onAcknowledge"} ELSE {})
  \cup (IF alert.status = "acknowledged" THEN {"onResolve"} ELSE {})
  \cup {"onViewDetails"}

NoRequest == [callback |-> "none", alertId |-> "0"]

\* The callbacks of <AlertPanel /> as Home renders it (home.tsx line 415, no
\* props): the defaults of lines 38-40, which do nothing.
onAcknowledge(alertId) == UNCHANGED alerts
onResolve(alertId) == UNCHANGED alerts
onViewDetails(alertId) == UNCHANGED alerts

\* A click on a button of the i-th alert shown.
Acknowledge(i) ==
  /\ i \in 1..Len(filteredAlerts)
  /\ "onAcknowledge" \in Offered(filteredAlerts[i])
  /\ onAcknowledge(filteredAlerts[i].id)
  /\ requested' = [callback |-> "onAcknowledge", alertId |-> filteredAlerts[i].id]
  /\ UNCHANGED <<alertTab, panelVars, homeVars, analysisVars, mapVars>>

Resolve(i) ==
  /\ i \in 1..Len(filteredAlerts)
  /\ "onResolve" \in Offered(filteredAlerts[i])
  /\ onResolve(filteredAlerts[i].id)
  /\ requested' = [callback |-> "onResolve", alertId |-> filteredAlerts[i].id]
  /\ UNCHANGED <<alertTab, panelVars, homeVars, analysisVars, mapVars>>

ViewDetails(i) ==
  /\ i \in 1..Len(filteredAlerts)
  /\ "onViewDetails" \in Offered(filteredAlerts[i])
  /\ onViewDetails(filteredAlerts[i].id)
  /\ requested' = [callback |-> "onViewDetails", alertId |-> filteredAlerts[i].id]
  /\ UNCHANGED <<alertTab, panelVars, homeVars, analysisVars, mapVars>>

\* onValueChange of the panel's tabs, line 72
setAlertTab(tab) ==
  /\ tab # alertTab
  /\ alertTab' = tab
  /\ UNCHANGED <<alerts, requested, panelVars, homeVars, analysisVars, mapVars>>

\* props defaults, part_002 lines 56-57 (the threshold in hundredths)
currentModel == "facebook/detr-resnet-50"
confidenceThreshold == 85
\* {x, y}; a map position is in tenths of a percent
Point(x, y) == [x |-> x, y |-> y]

\* --------------------------------------------------------- MapVisualization
\* The listeners are those of the latest render: the effect of part_003 lines
\* 88-275 has every state cell it reads among its dependencies and registers
\* them again after each commit.
\* e.clientX and e.clientY, in pixels; 0.1 percent of the map for each pixel.
ClientPoints == {Point(0, 0), Point(300, 0), Point(1500, 1500)}
\* Math.max(lo, Math.min(hi, n))
Clamp(lo, hi, n) == IF n < lo THEN lo ELSE IF n > hi THEN hi ELSE n

\* lines 103-109
handleMouseDown(e) ==
  /\ isDragging' = TRUE
  /\ dragStart' = e
  /\ lastPosition' = mapPosition
  /\ mapEvent' = "mousedown"
  /\ UNCHANGED <<mapPosition, zoomLevel,
                 otherThanMap>>

\* lines 111-121
handleMouseMove(e) ==
  /\ IF ~isDragging THEN UNCHANGED mapPosition
     ELSE mapPosition' =
            Point(Clamp(0, 1000, lastPosition.x - (e.x - dragStart.x)),
                  Clamp(0, 1000, lastPosition.y - (e.y - dragStart.y)))
  /\ mapEvent' = "mousemove"
  /\ UNCHANGED <<zoomLevel, isDragging, dragStart, lastPosition,
                 otherThanMap>>

\* lines 123-126
handleMouseUp ==
  /\ isDragging' = FALSE
  /\ mapEvent' = "mouseup"
  /\ UNCHANGED <<mapPosition, zoomLevel, dragStart, lastPosition,
                 otherThanMap>>

\* lines 128-133
WheelDeltas == {-1, 0, 1}
handleWheel_unclamped(deltaY) ==
  /\ zoomLevel' = zoomLevel + (IF deltaY > 0 THEN -10 ELSE 10)
  /\ mapEvent' = "wheel"
  /\ UNCHANGED <<mapPosition, isDragging, dragStart, lastPosition,
                 otherThanMap>>
handleWheel(deltaY) ==
  /\ zoomLevel' = Clamp(50, 200, zoomLevel + (IF deltaY > 0 THEN -10 ELSE 10))
  /\ mapEvent' = "wheel"
  /\ UNCHANGED <<mapPosition, isDragging, dragStart, lastPosition,
                 otherThanMap>>

\* The zoom slider, lines 415-422: min 50, max 200, step 10.
SliderValues == {50 + 10 * k : k \in 0..15}
zoomSlider(value) ==
  /\ value \in SliderValues
  /\ zoomLevel' = value
  /\ mapEvent' = "slider"
  /\ UNCHANGED <<mapPosition, isDragging, dragStart, lastPosition,
                 otherThanMap>>

\* lines 288-292
resetView ==
  /\ mapPosition' = Point(500, 500)
  /\ zoomLevel' = 100
  /\ mapEvent' = "reset"
  /\ UNCHANGED <<isDragging, dragStart, lastPosition,
                 otherThanMap>>

\* useState(...) initial values: part_002 lines 59-75, home.tsx lines 29-32,
\* AlertPanel.tsx lines 37-42.
InitPanel ==
  /\ uploadedVideo = Null /\ videoType = "live"
  /\ hasProcessedVideo = FALSE /\ isPlaying = TRUE
  /\ detections = <<>> /\ jobs = <<>> /\ alerted = <<>>
InitSettings ==
  /\ activeTab = "live" /\ droneConnected = FALSE /\ isConnecting = FALSE
  /\ showScanner = FALSE /\ attempts = 0
  /\ alerts = defaultAlerts /\ alertTab = "all" /\ requested = NoRequest
  /\ excludedLabels = <<>> /\ threshold = confidenceThreshold
  /\ selectedModel = currentModel /\ panelCurrentFrame = 0
  /\ showBoundingBoxes = TRUE /\ visualizationMode = "bounding-boxes"
  /\ mapPosition = Point(500, 500) /\ zoomLevel = 100
  /\ isDragging = FALSE /\ dragStart = Point(0, 0)
  /\ lastPosition = Point(500, 500)
  /\ mapEvent = "none"
InitDashboard == InitPanel /\ InitSettings

\* --------------------------------------------------------- specifications
InitAnalysis ==
  /\ videoId = NoVideo /\ uploadedVideoId = NoVideo
  /\ isUploading = FALSE /\ uploadError = Null
  /\ upload = NoUpload /\ uploads = 0
  /\ mounted = FALSE
  /\ isProcessing = FALSE /\ metadata = NullRecord /\ currentFrame = NullRecord
  /\ allFrames = <<>> /\ error = Null /\ progress = Number(0)
  /\ videoSrc = NoVideo /\ currentTime = 0 /\ canplayDue = FALSE
  /\ listenerMeta = NullRecord
  /\ runs = <<>>
  /\ body = <<>> /\ wire = <<>> /\ dispatched = <<>>
  /\ nreads = 0
  /\ arrived = <<>> /\ userActed = FALSE
Init == InitAnalysis /\ InitDashboard

\* The lines the streaming endpoint may write.
Lines ==
  {Serialize(MetadataRecord(2)),
   Serialize(FrameResult(1, 3, <<"a">>)),
   Serialize(FrameResult(3, 9, <<"U+00E9">>)),
   Serialize(CompleteRecord), Serialize(ErrorRecord(<<"e">>))}
\* ... and, in SpecStream, a line that is not JSON and an empty line.
StreamLines == Lines \cup {<<"X">>, <<>>}

\* Spec: every chunk is one whole line with its newline.
Chunks == {Encode(l) \o <<LF>> : l \in Lines}

read(r, value) ==
  /\ r \in Reading /\ nreads < MaxReads
  /\ ReadChunk(r, value)
  /\ nreads' = nreads + 1
  /\ UNCHANGED streamVars

readDone(r) ==
  /\ r \in Reading
  /\ ReadDone(r)
  /\ UNCHANGED streamVars

Next ==
  \/ \E v \in VideoIds \cup {NoVideo} : setVideoId(v)
  \/ handleCanPlay
  \/ RestartDetection
  \/ \E r \in 1..Len(runs), cause \in FetchFailures : fetchFails(r, cause)
  \/ \E r \in 1..Len(runs) : fetchOk(r)
  \/ \E r \in 1..Len(runs), value \in Chunks : read(r, value)
  \/ \E r \in 1..Len(runs) : readDone(r)
  \/ \E r \in 1..Len(runs) : readFails(r)

Spec == Init /\ [][Next]_vars

\* SpecPage: the upload flow of the page, the component it mounts and the
\* requests that component starts.
NextPage ==
  \/ \E file \in Files : handleFileUpload(file)
  \/ \E id \in VideoIds : uploadResponds(TRUE, id)
  \/ uploadResponds(TRUE, NoVideo)
  \/ uploadResponds(FALSE, NoVideo)
  \/ uploadSettles
  \/ \E v \in VideoIds \cup {NoVideo} : setVideoId(v)
  \/ handleCanPlay
  \/ \E r \in 1..Len(runs), cause \in FetchFailures : fetchFails(r, cause)
  \/ \E r \in 1..Len(runs) : fetchOk(r)

SpecPage == Init /\ [][NextPage]_vars

\* SpecStream: one run reads one response body, cut into chunks at any byte.
RECURSIVE BodiesOf(_)
BodiesOf(n) ==
  IF n = 0 THEN {<<>>}
  ELSE {Encode(l) \o <<LF>> \o b : l \in StreamLines, b \in BodiesOf(n - 1)}
\* ... each with its last line ended by a newline, or not.
Bodies ==
  LET terminated == UNION {BodiesOf(n) : n \in 1..MaxLines}
  IN terminated \cup {Front(b) : b \in terminated}

\* A first run (started by canplay after the mount) or a restarted one (whose
\* closure holds the metadata of an earlier run), once fetch has resolved.
InitStream ==
  /\ videoId = "v1" /\ uploadedVideoId = NoVideo
  /\ isUploading = FALSE /\ uploadError = Null
  /\ upload = NoUpload /\ uploads = 0
  /\ mounted = TRUE
  /\ metadata \in {NullRecord} \cup {MetadataRecord(n) : n \in FrameCounts}
  /\ isProcessing = TRUE /\ currentFrame = NullRecord
  /\ allFrames = <<>> /\ error = Null /\ progress = Number(0)
  \* the video of a restarted run may have played
  /\ videoSrc = "v1" /\ currentTime \in {0, 4} /\ canplayDue = FALSE
  /\ listenerMeta = NullRecord
  /\ runs = <<[Run("v1", metadata) EXCEPT !.phase = "read"]>>
  /\ body \in Bodies /\ wire = body /\ dispatched = <<>>
  /\ nreads = 0
  /\ arrived = <<>> /\ userActed = FALSE
  /\ InitDashboard

streamRead(n) ==
  /\ 1 \in Reading /\ n \in 1..Len(wire)
  /\ ReadChunk(1, SubSeq(wire, 1, n))
  /\ wire' = SubSeq(wire, n + 1, Len(wire))
  /\ dispatched' =
       dispatched \o Records(LinesOf(runs[1].buffer, SubSeq(wire, 1, n)))
  /\ UNCHANGED <<body, nreads>>

streamDone ==
  /\ 1 \in Reading /\ wire = <<>>
  /\ ReadDone(1)
  /\ UNCHANGED streamVars

NextStream ==
  \/ \E n \in 1..Len(wire) : streamRead(n)
  \/ streamDone

SpecStream == InitStream /\ [][NextStream]_vars

\* SpecPanel: the AI inference panel, its uploads and detection requests.
RawDetections ==
  {[id |-> "a", label |-> "car", confidence |-> 9,
    bounding_box |-> [x |-> 1, y |-> 2, width |-> 3, height |-> 4],
    severity |-> "high", timestamp |-> "t1", frame_number |-> 1, fps |-> 25],
   [confidence |-> 5],
   [label |-> "", bounding_box |-> [x |-> 1], severity |-> "low",
    frame_number |-> 3],
   [id |-> "p", label |-> "person", confidence |-> 8, frame_number |-> 3]}
Results ==
  {NullResult, [status |-> "ok"], [detections |-> <<>>]}
  \cup {[detections |-> <<d>>] : d \in RawDetections}
DetectResponses ==
  {Response("network", NullResult), Response("status", NullResult),
   Response("badjson", NullResult)}
  \cup {Response("json", result) : result \in Results}

NextPanel ==
  \/ \E file \in Files : handleVideoUpload(file)
  \/ \E j \in 1..Len(jobs), id \in VideoIds : uploadAnswered(j, TRUE, id)
  \/ \E j \in 1..Len(jobs) : uploadAnswered(j, TRUE, NoVideo)
  \/ \E j \in 1..Len(jobs) : uploadAnswered(j, FALSE, NoVideo)
  \/ \E j \in 1..Len(jobs), response \in DetectResponses :
       detectAnswered(j, response)
  \/ \E j \in 1..Len(jobs) : processUploadedVideo(j)
  \/ switchToLive
  \/ highAccuracyMode
  \/ excludePerson
  \/ resetThreshold

SpecPanel == Init /\ [][NextPanel]_vars

\* SpecDisplay: what the panel draws of a processed video. It starts where
\* SpecPanel arrives once the detection request of the first upload was
\* answered with a list of detections (lines 215-237).
DetectionLists ==
  UNION {[1..n -> RawDetections] : n \in 0..MaxDetections}
InitDisplay ==
  /\ InitAnalysis /\ InitSettings
  /\ uploadedVideo = <<1>> /\ videoType = "uploaded"
  /\ hasProcessedVideo = TRUE /\ isPlaying = FALSE /\ alerted = <<>>
  /\ \E list \in DetectionLists :
       /\ jobs = <<[phase |-> "done", failed |-> FALSE,
                    response |-> Response("json", [detections |-> list])]>>
       /\ detections = [i \in 1..Len(list) |-> formatDetection(list[i])]

NextDisplay ==
  \/ \E frame \in 0..MaxFrame : updateFrame(frame)
  \/ \E label \in {"person", "animal"} : toggleExcluded(label)
  \/ \E i \in 1..Len(ResultsList) : excludeDetection(i)
  \/ excludePerson
  \/ \E checked \in BOOLEAN : setShowBoundingBoxes(checked)
  \/ \E mode \in VisualizationModes : setVisualizationMode(mode)

SpecDisplay == InitDisplay /\ [][NextDisplay]_vars

\* SpecHome: the dashboard's drone connection and its alert panel.
NextHome ==
  \/ connectButton
  \/ \E drone \in fakeDrones : handleSelectDrone(drone)
  \/ connected
  \/ onClose
  \/ \E tab \in HomeTabs : setActiveTab(tab)
  \/ \E i \in 1..Len(filteredAlerts) : Acknowledge(i)
  \/ \E i \in 1..Len(filteredAlerts) : Resolve(i)
  \/ \E i \in 1..Len(filteredAlerts) : ViewDetails(i)
  \/ \E tab \in {"all", "new"} : setAlertTab(tab)

SpecHome == Init /\ [][NextHome]_vars

\* SpecMap: the map view's pan and zoom.
NextMap ==
  \/ \E e \in ClientPoints : handleMouseDown(e)
  \/ \E e \in ClientPoints : handleMouseMove(e)
  \/ handleMouseUp
  \/ \E deltaY \in WheelDeltas : handleWheel(deltaY)
  \/ \E value \in SliderValues : zoomSlider(value)
  \/ resetView

SpecMap == Init /\ [][NextMap]_vars

\* ------------------------------------------------------------- properties
\* The lines of a response body, each decoded as a chunk of its own.
LinesOfBody(b) ==
  LET bytes == Front(split(b))
  IN [i \in 1..Len(bytes) |-> TextDecoder_decode(bytes[i])]

\* The least of a set of places in a sequence; 0 when the set is empty.
First(places) ==
  IF places = {} THEN 0 ELSE CHOOSE i \in places : \A j \in places : i <= j
ErrorRecords(recs) ==
  {i \in 1..Len(recs) : recs[i].type = "none" /\ recs[i].error # Null}
CompleteRecords(recs) == {i \in 1..Len(recs) : recs[i].type = "complete"}

SameNumber(a, b) == a.den # 0 /\ b.den # 0 /\ a.num * b.den = b.num * a.den

StreamEnded == Len(runs) = 1 /\ runs[1].phase = "ended"

\* C1: however the body is cut into chunks, the run dispatches the records
\* that it dispatches when every line arrives as one chunk (SpecStream).
C1_ChunkingIndependent ==
  StreamEnded => dispatched = Records(LinesOfBody(body))

\* C2: once an error record was dispatched, isProcessing is false, the error
\* shown is that record's, and nothing the stream delivers afterwards reaches
\* allFrames or currentFrame (SpecStream).
C2_ErrorRecordStops ==
  LET i == First(ErrorRecords(dispatched))
  IN i # 0 =>
       /\ ~isProcessing
       /\ error = dispatched[i].error
       /\ allFrames = SelectFrames(SubSeq(dispatched, 1, i))
       /\ currentFrame =
            IF allFrames = <<>> THEN NullRecord ELSE Last(allFrames)

\* C3: in the first run of a component instance, a frame_result dispatched
\* after the metadata record arrived sets progress to
\* frame_number / frame_count * 100 (Spec).
C3_ProgressFromMetadata ==
  [][(/\ Len(runs) = 1 /\ Len(runs') = 1
      /\ metadata # NullRecord /\ metadata' = metadata
      /\ Len(allFrames') = Len(allFrames) + 1)
     => SameNumber(progress',
                   Percent(currentFrame'.frame_number, metadata.frame_count))]_vars

\* C4: once a complete record was dispatched, progress is 100, isProcessing is
\* false and the run dispatches no record after it (SpecStream).
C4_CompleteEndsRun ==
  LET i == First(CompleteRecords(dispatched))
  IN i # 0 =>
       /\ ~isProcessing
       /\ progress = Number(100)
       /\ Len(dispatched) = i

\* C5: a chunk whose lines are all malformed changes none of the state cells;
\* in any chunk the malformed lines count for nothing, the well-formed ones
\* act as if the malformed ones were not there; and the run goes on reading
\* (SpecStream).
WellFormed(lines) ==
  SelectSeq(lines, LAMBDA l : IsBlank(l) \/ JSON_parse(l) # Invalid)
C5_MalformedLineSkipped ==
  [][Len(wire') < Len(wire) =>
       LET value == SubSeq(wire, 1, Len(wire) - Len(wire'))
           lines == LinesOf(runs[1].buffer, value)
       IN /\ Records(lines) = <<>> => UNCHANGED stateVars
          /\ State' = ProcessLines(State, WellFormed(lines), runs[1].meta)
          /\ runs'[1].phase = "read"]_vars
\* a malformed line came first, and the frame_result after it is displayed
C5_Witness ==
  /\ StreamEnded
  /\ Len(LinesOfBody(body)) = 2
  /\ JSON_parse(LinesOfBody(body)[1]) = Invalid
  /\ ~IsBlank(LinesOfBody(body)[1])
  /\ JSON_parse(LinesOfBody(body)[2]).type = "frame_result"
  /\ Len(allFrames) = 1

\* C6: allFrames is the frame_result records dispatched since the run began,
\* in the order of their dispatch, and currentFrame is the last of them (Spec).
C6_ArrivalOrder ==
  /\ allFrames = [i \in 1..Len(arrived) |-> arrived[i].frame]
  /\ allFrames # <<>> => currentFrame = Last(allFrames)
  /\ allFrames = <<>> => currentFrame = NullRecord
\* two frames are displayed, the later frame_number first
C6_Witness ==
  /\ Len(allFrames) = 2
  /\ allFrames[1].frame_number > allFrames[2].frame_number
  /\ arrived[1].run = arrived[2].run

\* C7: every frame in allFrames was delivered by the run started last (Spec).
C7_OnlyCurrentRun ==
  \A i \in 1..Len(arrived) : arrived[i].run = Len(runs)

\* C8: two stream readers are consumed at once only if the user restarted
\* detection or changed videoId (Spec).
C8_SingleReader ==
  Cardinality(Reading) >= 2 => userActed

\* C9: the step in which a run fails (fetch rejects, non-2xx, no reader, read
\* rejects) leaves error non-null and isProcessing false, and issues no
\* request: no run is added and no run that was over is live again (Spec).
C9_FailureEndsRun ==
  [][\A r \in 1..Len(runs) :
       (/\ r <= Len(runs')
        /\ runs[r].phase \in {"fetch", "read"}
        /\ runs'[r].phase = "failed")
       => /\ error' # Null
          /\ ~isProcessing'
          /\ Len(runs') = Len(runs)
          /\ \A q \in 1..Len(runs') :
               runs'[q].phase \in {"fetch", "read"} => runs'[q] = runs[q]]_vars
\* a run failed while reading
C9_Witness ==
  /\ \E r \in 1..Len(runs) : runs[r].phase = "failed"
  /\ error # Null /\ error[1] = "Stream processing error: "
  /\ ~isProcessing

\* C10: when the answered upload carries a video_id, the step that handles the
\* answer stores it in uploadedVideoId (which the page displays) and in
\* videoId, and the detection component is mounted on that id (SpecPage).
C10_UploadStoresVideoId ==
  [][(/\ upload.phase = "answered" /\ upload.ok /\ upload.video_id # NoVideo
      /\ upload'.phase = "idle")
     => /\ uploadedVideoId' = upload.video_id
        /\ videoId' = upload.video_id
        /\ mounted' /\ videoSrc' = upload.video_id
        /\ uploadError' = Null /\ ~isUploading']_vars
\* the second upload replaced the first id, and detection started on it
C10_Witness ==
  /\ uploads = 2 /\ upload.phase = "idle"
  /\ uploadedVideoId = "v2" /\ videoId = "v2"
  /\ mounted /\ videoSrc = "v2"
  /\ \E r \in 1..Len(runs) : runs[r].vid = "v2" /\ runs[r].phase = "read"

\* C11: the step in which an upload of the AI inference panel fails (no
\* answer, or a non-2xx answer) shows the user a message, and sends no
\* detection request (SpecPanel).
C11_UploadFailureShown ==
  [][\A j \in 1..Len(jobs) :
       (jobs[j].phase = "upload" /\ jobs'[j].phase = "done" /\ jobs'[j].failed)
       => /\ Len(alerted') > Len(alerted)
          /\ \A k \in 1..Len(jobs) :
               jobs'[k].phase = "detect" => jobs[k].phase = "detect"]_vars

\* The step in which processUploadedVideo stores the detections of job j.
Formats(j) ==
  /\ jobs[j].phase = "answered" /\ jobs'[j].phase = "done"
  /\ jobs[j].response.kind = "json"
  /\ HasDetections(jobs[j].response.result)
BoxFields == {"x", "y", "width", "height"}
StringFields == {"id", "label", "severity", "timestamp"}
Default(field) ==
  CASE field = "label" -> "Unknown"
    [] field = "severity" -> "medium"
    [] field = "id" -> Math_random
    [] field = "timestamp" -> Now
\* what is missing in the response's detection d has its default in n
Defaulted(d, n) ==
  /\ \A f \in {"label", "severity"} : ~Has(d, f) => n[f] = Default(f)
  /\ \A f \in BoxFields :
       (~Has(d, "bounding_box") \/ ~Has(d.bounding_box, f))
       => n.boundingBox[f] = 0
\* the numbers d carries are those of n
NumbersCopied(d, n) ==
  /\ Has(d, "confidence") => n.confidence = d.confidence
  /\ \A f \in BoxFields :
       (Has(d, "bounding_box") /\ Has(d.bounding_box, f))
       => n.boundingBox[f] = d.bounding_box[f]
  /\ \A f \in {"frame_number", "fps"} : Has(d, f) => n[f] = <<d[f]>>

Settles(j) == jobs[j].phase = "answered" /\ jobs'[j].phase = "done"

\* C13: the step that handles a failed detection call (the request rejects, a
\* non-2xx answer, a body that is not JSON) raises exactly one alert, leaves
\* detections and hasProcessedVideo as they are, and sends no detection
\* request (SpecPanel).
C13_DetectFailureAlerts ==
  [][\A j \in 1..Len(jobs) :
       (Settles(j) /\ jobs[j].response.kind # "json")
       => /\ Len(alerted') = Len(alerted) + 1
          /\ SubSeq(alerted', 1, Len(alerted)) = alerted
          /\ Last(alerted') \in {AlertFailed, AlertError}
          /\ UNCHANGED <<detections, hasProcessedVideo>>
          /\ \A k \in 1..Len(jobs) :
               jobs'[k].phase = "detect" => jobs[k].phase = "detect"]_vars
\* the detections of an earlier video are displayed and the detection call for
\* a later one has failed
C13_Witness ==
  /\ Len(jobs) = 2
  /\ jobs[1].phase = "done" /\ jobs[2].phase = "done"
  /\ jobs[2].response.kind = "status"
  /\ alerted = <<AlertFailed>>
  /\ Len(detections) = 1 /\ hasProcessedVideo

\* C14: the step that handles a detection answer whose detections are empty or
\* absent raises an alert and does not mark the video as processed (SpecPanel).
C14_NoDetectionsHalts ==
  [][\A j \in 1..Len(jobs) :
       (/\ Settles(j) /\ jobs[j].response.kind = "json"
        /\ (~HasDetections(jobs[j].response.result)
            \/ jobs[j].response.result.detections = <<>>))
       => /\ Len(alerted') = Len(alerted) + 1
          /\ UNCHANGED hasProcessedVideo]_vars

\* The status of the alert with this id.
StatusOf(list, alertId) ==
  LET i == CHOOSE k \in 1..Len(list) : list[k].id = alertId IN list[i].status
\* A click on a button of an alert called this callback.
Clicked(callback) == requested' # requested /\ requested'.callback = callback

\* C15: a click on Acknowledge for an alert whose status is "new" leaves that
\* alert "acknowledged" and every other alert's status as it was (SpecHome).
C15_AcknowledgeTransitions ==
  [][(Clicked("onAcknowledge") /\ StatusOf(alerts, requested'.alertId) = "new")
     => /\ Len(alerts') = Len(alerts)
        /\ \A i \in 1..Len(alerts) :
             /\ alerts'[i].id = alerts[i].id
             /\ alerts'[i].status =
                  IF alerts[i].id = requested'.alertId THEN "acknowledged"
                  ELSE alerts[i].status]_vars

\* C17: a click calls onAcknowledge only for an alert whose status is "new"
\* and onResolve only for one whose status is "acknowledged": no click asks to
\* resolve a new alert, or to acknowledge or resolve a resolved one (SpecHome).
C17_StatusActions ==
  [][/\ Clicked("onAcknowledge")
          => StatusOf(alerts, requested'.alertId) = "new"
     /\ Clicked("onResolve")
          => StatusOf(alerts, requested'.alertId) = "acknowledged"]_vars
\* Resolve was clicked for an acknowledged alert while new and resolved
\* alerts were shown beside it
C17_Witness ==
  /\ requested.callback = "onResolve"
  /\ StatusOf(alerts, requested.alertId) = "acknowledged"
  /\ alertTab = "all"
  /\ \E i \in 1..Len(filteredAlerts) : filteredAlerts[i].status = "resolved"
  /\ \E i \in 1..Len(filteredAlerts) : filteredAlerts[i].status = "new"

\* |a - b|
Drift(a, b) == IF a >= b THEN a - b ELSE b - a

\* C16: when a chunk brings a new current frame or new metadata, then, with a
\* current frame and metadata known, the playback time becomes the frame's
\* timestamp if it was more than 0.5 s (5 tenths) away from it and stays as it
\* is otherwise, so that it ends at most 0.5 s away; without metadata it stays
\* as it is (SpecStream).
C16_SoftSync ==
  [][(/\ Len(wire') < Len(wire)
      /\ <<currentFrame', metadata'>> # <<currentFrame, metadata>>
      /\ currentFrame' # NullRecord)
     => IF metadata' = NullRecord THEN currentTime' = currentTime
        ELSE /\ Drift(currentTime, currentFrame'.timestamp) > 5
                  => currentTime' = currentFrame'.timestamp
             /\ Drift(currentTime, currentFrame'.timestamp) <= 5
                  => currentTime' = currentTime
             /\ Drift(currentTime', currentFrame'.timestamp) <= 5]_vars
\* the playback time was moved to a frame more than 0.5 s away, and a later
\* frame has not yet arrived
C16_Witness ==
  /\ metadata # NullRecord /\ currentFrame # NullRecord
  /\ currentFrame.timestamp = 9 /\ currentTime = 9
  /\ wire # <<>>

\* C18: an upload of the video-analysis page is in flight only for a file whose
\* MIME type begins with "video/" (SpecPage).
C18_OnlyVideoFiles ==
  upload.phase # "idle" => startsWith(upload.file.type, <<"video/">>)

\* No run of the mounted component received anything or ended in this step.
NoStreamEvent ==
  /\ mounted /\ mounted'
  /\ nreads' = nreads
  /\ Len(runs') >= Len(runs)
  /\ \A r \in 1..Len(runs) : runs'[r] = runs[r]

\* C19: while isProcessing is true, a step in which no request is answered, no
\* chunk arrives and no stream closes or fails leaves isProcessing true and
\* sets no error: nothing but the stream ends the processing state (Spec).
C19_NoTimeout ==
  [][(isProcessing /\ NoStreamEvent) => (isProcessing' /\ error' = error)]_vars
\* a run has read a frame and its stream delivers nothing more
C19_Witness ==
  /\ Len(runs) = 1 /\ runs[1].phase = "read"
  /\ Len(allFrames) = 1
  /\ isProcessing /\ error = Null
  /\ ~canplayDue

\* C20: while isConnecting, the scanner dialog is closed and exactly one
\* attempt is running; an attempt runs only while isConnecting; no attempt
\* begins, the dialog does not open and the drone is not disconnected while
\* one is running; and droneConnected becomes true only in the step that ends
\* the one running attempt, which leaves isConnecting false and the active tab
\* "live" (SpecHome).
C20_NoConcurrentTransition ==
  /\ [](isConnecting => (~showScanner /\ attempts = 1))
  /\ [](attempts > 0 => isConnecting)
  /\ [][/\ attempts' > attempts => (attempts = 0 /\ ~isConnecting)
        /\ (showScanner' /\ ~showScanner) => (attempts = 0 /\ ~isConnecting)
        /\ (droneConnected /\ ~droneConnected') => (attempts = 0 /\ ~isConnecting)
        /\ (~droneConnected /\ droneConnected')
             => /\ attempts = 1 /\ attempts' = 0
                /\ ~isConnecting' /\ activeTab' = "live"]_vars
\* an attempt is running while the user looks at another tab
C20_Witness ==
  /\ isConnecting /\ attempts = 1
  /\ ~droneConnected /\ ~showScanner
  /\ activeTab = "map"
\* Places of the detections that carry a frame_number, and the distance of one
\* of them from the panel's current frame.
WithFrame == {i \in 1..Len(detections) : detections[i].frame_number # <<>>}
Distance(i) == Abs(detections[i].frame_number[1] - panelCurrentFrame)
Nearest ==
  CHOOSE i \in WithFrame :
    \A k \in WithFrame :
      Distance(i) < Distance(k) \/ (Distance(i) = Distance(k) /\ i <= k)

\* C21: frameDetections is empty when there are no detections, all of them
\* when none carries a frame_number, and otherwise exactly the detections of
\* the frame number nearest to the current frame among those that carry one,
\* the first in the list winning a tie (SpecDisplay).
C21_ClosestFrame ==
  frameDetections =
    IF detections = <<>> THEN <<>>
    ELSE IF WithFrame = {} THEN detections
    ELSE SelectSeq(detections,
           LAMBDA d : d.frame_number = detections[Nearest].frame_number)
C21_Witness ==
  /\ Len(detections) = 2 /\ panelCurrentFrame = 2
  /\ detections[1].frame_number = <<3>> /\ detections[2].frame_number = <<1>>
  /\ frameDetections = <<detections[1]>>

\* C22: no detection that the overlay or the Results list shows has a label
\* that is in excludedLabels (SpecDisplay).
C22_ExcludedHidden ==
  /\ \A i \in 1..Len(Overlay) : ~includes(excludedLabels, Overlay[i].label)
  /\ \A i \in 1..Len(ResultsList) :
       ~includes(excludedLabels, ResultsList[i].label)

\* C23: the step of switchToLive sets videoType "live", uploadedVideo null and
\* isPlaying true and leaves detections, hasProcessedVideo, threshold,
\* selectedModel and excludedLabels as they are; the step that starts a video
\* upload clears detections and resets hasProcessedVideo (SpecPanel).
C23_SwitchKeepsDetections ==
  [][/\ (videoType = "uploaded" /\ videoType' = "live") =>
          /\ uploadedVideo' = Null /\ isPlaying'
          /\ UNCHANGED <<detections, hasProcessedVideo, threshold,
                         selectedModel, excludedLabels>>
     /\ Len(jobs') > Len(jobs) =>
          /\ videoType' = "uploaded"
          /\ detections' = <<>> /\ ~hasProcessedVideo']_vars
C23_Witness ==
  /\ videoType = "live" /\ uploadedVideo = Null /\ isPlaying
  /\ detections # <<>> /\ hasProcessedVideo
  /\ threshold = 90 /\ selectedModel = "microsoft/yolov5"
  /\ excludedLabels = <<"person">>

\* C26: the answer to the detection request of a video that is no longer the
\* most recently uploaded one changes neither detections nor
\* hasProcessedVideo (SpecPanel).
C26_LatestVideoOnly ==
  [][\A j \in 1..Len(jobs) :
       (Settles(j) /\ j < Len(jobs)) =>
         UNCHANGED <<detections, hasProcessedVideo>>]_vars

\* C24: when the response body has ended, isProcessing is false, whether or
\* not a complete or an error record was received (SpecStream).
C24_EndOfBodyEndsRun == StreamEnded => ~isProcessing

\* Every piece between the newlines of a response body, the text after the
\* last newline included, each decoded as a chunk of its own.
AllLinesOfBody(b) ==
  LET bytes == split(b)
  IN [i \in 1..Len(bytes) |-> TextDecoder_decode(bytes[i])]

\* C25: when the response body has ended, as many records were dispatched as
\* the server sent, a last record that no newline follows included
\* (SpecStream).
C25_EveryRecordOnce ==
  StreamEnded => Len(dispatched) = Len(Records(AllLinesOfBody(body)))

\* C27: progress is a number between 0 and 100 (SpecStream).
C27_ProgressInRange ==
  /\ progress.den > 0
  /\ 0 <= progress.num /\ progress.num <= 100 * progress.den

\* C28: whenever error is not null, isProcessing is false, however the steps of
\* overlapping runs interleave (Spec).
C28_ErrorMeansStopped == error # Null => ~isProcessing
C28_Witness ==
  /\ error # Null /\ ~isProcessing
  /\ Len(runs) = 2 /\ Reading # {}
  /\ \E r \in 1..Len(runs) : runs[r] = Failed

\* C29: zoomLevel stays within 50..200 and both coordinates of mapPosition
\* within 0..100 percent; a wheel event changes zoomLevel by at most 10, a
\* mouse move outside a drag leaves mapPosition as it is, and resetView
\* restores mapPosition (50, 50) and zoomLevel 100 (SpecMap).
C29_MapBounds ==
  /\ [](/\ zoomLevel \in 50..200
        /\ mapPosition.x \in 0..1000 /\ mapPosition.y \in 0..1000)
  /\ [][/\ mapEvent' = "wheel" => Abs(zoomLevel' - zoomLevel) <= 10
        /\ (mapEvent' = "mousemove" /\ ~isDragging) =>
             mapPosition' = mapPosition
        /\ mapEvent' = "reset" =>
             mapPosition' = Point(500, 500) /\ zoomLevel' = 100]_vars
C29_Witness ==
  /\ mapEvent = "mousemove" /\ isDragging
  /\ mapPosition = Point(0, 1000) /\ zoomLevel = 200

====
